---- MODULE Spec2Model ----
(***************************************************************************)
(* Model of the lead pipeline of src/index.js (the final variant, lines    *)
(* 247-526): checkAndFetchLeads and the helpers it calls.                  *)
(*                                                                         *)
(* Text is modelled as a sequence of one-character strings, so that trim,  *)
(* replace, startsWith, padStart and substring are computed as the code    *)
(* computes them.  Time is counted in hours since the Unix epoch.          *)
(***************************************************************************)
EXTENDS Integers, Sequences, FiniteSets, TLC

\* ---------------------------------------------------------------- bounds
\* number of process invocations (runs of checkAndFetchLeads) explored
MaxRuns == 2
\* number of clock advances explored
MaxTicks == 1
\* hours the clock advances per tick
TickHours == 13
\* largest mailbox explored (messages matching the sender/subject filter)
MaxMsgs == 2
\* number of failing calls (mail, store, file system, authorization) explored
MaxFailures == 1
\* offset of the process's local time zone from UTC, in hours
TZ == 5

\* the instant the exploration starts at: 2025-11-01T07:00Z
BaseTime == 20393 * 24 + 7

\* ------------------------------------------------------- program constants
MAX_CELL_CHARS == 49999
IdHeaderLabel == "Unique Message ID"

\* ------------------------------------------------------------------ text
Str3(a, b, c) == <<a, b, c>>
NA == Str3("N", "/", "A")

RECURSIVE TrimStart(_)
TrimStart(s) ==
  IF s # <<>> /\ Head(s) = " " THEN TrimStart(Tail(s)) ELSE s

RECURSIVE TrimEnd(_)
TrimEnd(s) ==
  IF s # <<>> /\ s[Len(s)] = " " THEN TrimEnd(SubSeq(s, 1, Len(s) - 1)) ELSE s

\* String.prototype.trim
Trim(s) == TrimEnd(TrimStart(s))

\* String.prototype.startsWith
StartsWith(s, p) == Len(s) >= Len(p) /\ SubSeq(s, 1, Len(p)) = p

\* position of the first occurrence of p in s, 0 when there is none
IndexOf(s, p) ==
  LET hits == {i \in 1..(Len(s) - Len(p) + 1) : SubSeq(s, i, i + Len(p) - 1) = p}
  IN IF hits = {} THEN 0 ELSE CHOOSE i \in hits : \A j \in hits : i <= j

\* String.prototype.replace with a string pattern: the first occurrence only
ReplaceFirst(s, p, r) ==
  LET i == IndexOf(s, p)
  IN IF i = 0 THEN s
     ELSE SubSeq(s, 1, i - 1) \o r \o SubSeq(s, i + Len(p), Len(s))

\* String.prototype.replace with a /c/g pattern: every occurrence of one character
RECURSIVE RemoveAll(_, _)
RemoveAll(s, c) ==
  IF s = <<>> THEN <<>>
  ELSE IF Head(s) = c THEN RemoveAll(Tail(s), c)
  ELSE <<Head(s)>> \o RemoveAll(Tail(s), c)

\* Array.prototype.join(', ')
RECURSIVE Join(_)
Join(ss) ==
  IF ss = <<>> THEN <<>>
  ELSE IF Len(ss) = 1 THEN ss[1]
  ELSE ss[1] \o <<",", " ">> \o Join(Tail(ss))

VerifiedNote == <<" ", "(", "v", "e", "r", "i", "f", "i", "e", "d", ")">>
TruncMarker ==
  <<"\n", ".", ".", ".", " ", "(", "t", "r", "u", "n", "c", "a", "t", "e", "d", ")">>

\* truncateString cutting from the budget on: `>=` where the code has `>`
truncateString_AtBudget(str) ==
  IF str # <<>> /\ Len(str) >= MAX_CELL_CHARS
  THEN SubSeq(str, 1, MAX_CELL_CHARS) \o TruncMarker
  ELSE str

\* src/index.js truncateString
truncateString(str) ==
  IF str # <<>> /\ Len(str) > MAX_CELL_CHARS
  THEN SubSeq(str, 1, MAX_CELL_CHARS) \o TruncMarker
  ELSE str

\* `x || 'N/A'`
OrNA(s) == IF s = <<>> THEN NA ELSE s

\* ------------------------------------------------------------------ dates
DigitChar == <<"0", "1", "2", "3", "4", "5", "6", "7", "8", "9">>

\* String(n) for a non-negative integer
RECURSIVE NumToStr(_)
NumToStr(n) ==
  IF n < 10 THEN <<DigitChar[n + 1]>>
  ELSE NumToStr(n \div 10) \o <<DigitChar[(n % 10) + 1]>>

DigitVal(c) == CHOOSE d \in 0..9 : DigitChar[d + 1] = c
IsDigit(c) == \E d \in 0..9 : DigitChar[d + 1] = c

RECURSIVE StrToNum(_)
StrToNum(s) ==
  IF s = <<>> THEN 0
  ELSE 10 * StrToNum(SubSeq(s, 1, Len(s) - 1)) + DigitVal(s[Len(s)])

\* String.prototype.padStart(2, '0')
PadStart2(s) == IF Len(s) >= 2 THEN s ELSE <<"0">> \o s

\* proleptic Gregorian calendar: day number since 1970-01-01 -> <<year, month, day>>
CivilFromDays(z0) ==
  LET z   == z0 + 719468
      era == z \div 146097
      doe == z - era * 146097
      yoe == (doe - doe \div 1460 + doe \div 36524 - doe \div 146096) \div 365
      doy == doe - (365 * yoe + yoe \div 4 - yoe \div 100)
      mp  == (5 * doy + 2) \div 153
      d   == doy - (153 * mp + 2) \div 5 + 1
      m   == IF mp < 10 THEN mp + 3 ELSE mp - 9
      y   == yoe + era * 400 + (IF m <= 2 THEN 1 ELSE 0)
  IN <<y, m, d>>

\* <<year, month, day>> -> day number since 1970-01-01
DaysFromCivil(y0, m, d) ==
  LET y   == IF m <= 2 THEN y0 - 1 ELSE y0
      era == y \div 400
      yoe == y - era * 400
      doy == (153 * (IF m > 2 THEN m - 3 ELSE m + 9) + 2) \div 5 + d - 1
      doe == yoe * 365 + yoe \div 4 - yoe \div 100 + doy
  IN era * 146097 + doe - 719468

\* a Date value: a valid instant, or the invalid date `new Date(garbage)` yields
ValidDate(t) == [valid |-> TRUE, t |-> t]
InvalidDate == [valid |-> FALSE, t |-> 0]

\* the local calendar day an instant falls on, as a day number
LocalDay(t) == (t + TZ) \div 24

\* Date.prototype.toISOString: the UTC fields of the instant
toISOString(t) ==
  LET c == CivilFromDays(t \div 24)
  IN [kind |-> "iso", y |-> c[1], m |-> c[2], d |-> c[3], h |-> t % 24]

\* contents of the checkpoint file that are no timestamp
GarbageText == [kind |-> "garbage", y |-> 0, m |-> 0, d |-> 0, h |-> 0]
\* the checkpoint file does not exist
NoFile == [kind |-> "absent", y |-> 0, m |-> 0, d |-> 0, h |-> 0]

\* new Date(text)
ParseDate(text) ==
  IF text.kind = "iso"
  THEN ValidDate(DaysFromCivil(text.y, text.m, text.d) * 24 + text.h)
  ELSE InvalidDate

NaNStr == Str3("N", "a", "N")

\* FormatYMD with the month taken from getMonth() as it is, zero-based
FormatYMD_Month0(date) ==
  IF date.valid
  THEN LET c == CivilFromDays(LocalDay(date.t))
       IN NumToStr(c[1]) \o <<"/">> \o PadStart2(NumToStr(c[2] - 1))
            \o <<"/">> \o PadStart2(NumToStr(c[3]))
  ELSE NaNStr \o <<"/">> \o NaNStr \o <<"/">> \o NaNStr

\* `${year}/${month}/${day}` from getFullYear, getMonth() + 1 and getDate
FormatYMD(date) ==
  IF date.valid
  THEN LET c == CivilFromDays(LocalDay(date.t))
       IN NumToStr(c[1]) \o <<"/">> \o PadStart2(NumToStr(c[2]))
            \o <<"/">> \o PadStart2(NumToStr(c[3]))
  ELSE NaNStr \o <<"/">> \o NaNStr \o <<"/">> \o NaNStr

\* getLastRunTime whose catch block falls back to nothing: a failed read yields
\* the invalid date
getLastRunTime_NoFallback(file, readOk, now) ==
  IF file.kind # "absent"
  THEN IF readOk THEN FormatYMD(ParseDate(file)) ELSE FormatYMD(InvalidDate)
  ELSE FormatYMD(ValidDate(now - 48))

\* src/index.js getLastRunTime: `file` is the checkpoint file, `readOk` whether
\* readFileSync succeeds, `now` the value of Date.now()
getLastRunTime(file, readOk, now) ==
  IF file.kind # "absent" /\ readOk
  THEN FormatYMD(ParseDate(file))
  ELSE FormatYMD(ValidDate(now - 48))

\* Date.prototype.toLocaleString: the local fields of the instant
toLocaleString(t) == CivilFromDays(LocalDay(t)) \o <<(t + TZ) % 24>>

\* ------------------------------------------------------------- HTML bodies
\* An HTML document is represented by what the selectors of parseIndiaMartLead
\* find in it (the text of the matched nodes, before trim); chars is its length.
BlankDoc ==
  [chars |-> 0, t1product |-> <<>>, t1name |-> <<>>, t1phone |-> <<>>, t1email |-> <<>>,
   t2product |-> <<>>, t2phone |-> <<>>, t2name |-> <<>>, t2emails |-> <<>>,
   anyPhone |-> <<>>, anyEmail |-> <<>>]

\* template 1 ("Buylead"), every field present, phone "+91-98 (verified)"
T1Doc ==
  [BlankDoc EXCEPT !.chars = 900,
     !.t1product = <<" ", "F", "i", "l", "m">>,
     !.t1name = <<"R", "a", "v", "i", " ">>,
     !.t1phone = <<"+", "9", "1", "-", "9", "8">> \o VerifiedNote,
     !.t1email = <<"r", "@", "x">>,
     !.anyPhone = <<"+", "9", "1", "-", "9", "8">> \o VerifiedNote,
     !.anyEmail = <<"r", "@", "x">>]

\* template 1 whose contact block is missing: a product, but no name and no phone
T1NoContactDoc ==
  [BlankDoc EXCEPT !.chars = 400, !.t1product = <<"F", "i", "l", "m">>]

\* template 2 ("Enquiry"), two mail links
T2Doc ==
  [BlankDoc EXCEPT !.chars = 700,
     !.t2product = <<"F", "o", "i", "l">>,
     !.t2phone = <<"+", "9", "1", "-", "7", "7">>,
     !.t2name = <<"A", "n", "u">>,
     !.t2emails = << <<"a", "@", "y">>, <<" ", "b", "@", "y">> >>,
     !.anyPhone = <<"+", "9", "1", "-", "7", "7">>,
     !.anyEmail = <<"a", "@", "y">>]

\* unknown template carrying a call link
UnknownPhoneDoc ==
  [BlankDoc EXCEPT !.chars = 300, !.anyPhone = <<"'", "5", "-", "5">>]

PhoneFormat(phone) ==
  IF phone # <<>> /\ phone # NA
  THEN LET p1 == ReplaceFirst(phone, VerifiedNote, <<>>)
           p2 == RemoveAll(p1, "-")
       IN IF StartsWith(p2, <<"'">>) THEN p2 ELSE <<"'">> \o p2
  ELSE phone

\* parseIndiaMartLead returning the fields as found, without the `|| 'N/A'`
\* defaults
parseIndiaMartLead_NoDefault(body) ==
  LET p1 == Trim(body.t1product)
      p2 == Trim(body.t2product)
      f  == IF p1 # <<>>
            THEN [product |-> p1, name |-> Trim(body.t1name),
                  phone |-> Trim(body.t1phone), email |-> Trim(body.t1email)]
            ELSE IF p2 # <<>>
            THEN [product |-> p2, name |-> Trim(body.t2name),
                  phone |-> Trim(body.t2phone),
                  email |-> Join([i \in 1..Len(body.t2emails) |-> Trim(body.t2emails[i])])]
            ELSE [product |-> NA, name |-> NA,
                  phone |-> Trim(body.anyPhone), email |-> Trim(body.anyEmail)]
      phone == PhoneFormat(f.phone)
  IN << truncateString(f.name), truncateString(phone),
        truncateString(f.email), truncateString(f.product) >>

\* src/index.js parseIndiaMartLead: returns <<name, phone, email, product>>
parseIndiaMartLead(body) ==
  LET p1 == Trim(body.t1product)
      p2 == Trim(body.t2product)
      f  == IF p1 # <<>>
            THEN [product |-> p1, name |-> Trim(body.t1name),
                  phone |-> Trim(body.t1phone), email |-> Trim(body.t1email)]
            ELSE IF p2 # <<>>
            THEN [product |-> p2, name |-> Trim(body.t2name),
                  phone |-> Trim(body.t2phone),
                  email |-> Join([i \in 1..Len(body.t2emails) |-> Trim(body.t2emails[i])])]
            ELSE [product |-> NA, name |-> NA,
                  phone |-> Trim(body.anyPhone), email |-> Trim(body.anyEmail)]
      \* the return statement, for the fields g as found and the formatted phone;
      \* binding g below has the fields worked out once
      Return(g, phone) ==
        << truncateString(OrNA(g.name)), truncateString(OrNA(phone)),
           truncateString(OrNA(g.email)), truncateString(OrNA(g.product)) >>
  IN CHOOSE r \in {Return(g, PhoneFormat(g.phone)) : g \in {f}} : TRUE

\* ---------------------------------------------------------------- messages
NoData == [present |-> FALSE, b64 |-> BlankDoc]
\* base64 text of a document, and Buffer.from(data, 'base64').toString('utf-8')
Base64(doc) == [present |-> TRUE, b64 |-> doc]
FromBase64(data) == data.b64

Part(mime, data) == [mimeType |-> mime, body |-> [data |-> data]]
Multipart(parts) == [hasParts |-> TRUE, parts |-> parts, body |-> [data |-> NoData]]
SinglePart(data) == [hasParts |-> FALSE, parts |-> <<>>, body |-> [data |-> data]]

\* src/index.js getEmailBody
getEmailBody(message) ==
  LET payload == message.payload
      html == {i \in 1..Len(payload.parts) : payload.parts[i].mimeType = "text/html"}
  IN IF payload.hasParts
     THEN IF html # {}
          THEN LET part == payload.parts[CHOOSE i \in html : \A j \in html : i <= j]
               IN IF part.body.data.present THEN FromBase64(part.body.data) ELSE BlankDoc
          ELSE BlankDoc
     ELSE IF payload.body.data.present THEN FromBase64(payload.body.data) ELSE BlankDoc

\* String.prototype.toLowerCase on the header names that occur
toLowerCase(name) ==
  CASE name = "Message-ID" -> "message-id"
    [] name = "Message-Id" -> "message-id"
    [] name = "From" -> "from"
    [] name = "Reply-To" -> "reply-to"
    [] OTHER -> name

Hdr(n, v) == [name |-> n, value |-> v]
\* a reply-to value of the form Display Name <address>
ReplyToKim == <<"K", "i", "m", " ", "<", "k", "@", "z", ">">>
FromHdr == Hdr("From", "indiamart")

\* The messages a mailbox may hold; each matches the sender/subject filter.
\* id is the transport's message id, age the hours before BaseTime it arrived.
Catalogue ==
  { [id |-> "g1", age |-> 5, headers |-> <<FromHdr, Hdr("Message-ID", "<a>")>>,
     payload |-> Multipart(<<Part("text/plain", NoData), Part("text/html", Base64(T1Doc))>>)],
    [id |-> "g2", age |-> 30, headers |-> <<Hdr("Message-Id", "<a>"), FromHdr>>,
     payload |-> SinglePart(Base64(T2Doc))],
    [id |-> "g3", age |-> 4, headers |-> <<FromHdr, Hdr("Reply-To", ReplyToKim)>>,
     payload |-> Multipart(<<Part("text/html", Base64(UnknownPhoneDoc))>>)],
    [id |-> "g4", age |-> 6, headers |-> <<FromHdr, Hdr("Message-ID", "<c>")>>,
     payload |-> Multipart(<<Part("text/plain", NoData)>>)],
    [id |-> "g5", age |-> 1, headers |-> <<FromHdr, Hdr("Message-ID", "<e>")>>,
     payload |-> SinglePart(Base64(T1NoContactDoc))],
    \* not in the mailbox at the start: it arrives at BaseTime
    [id |-> "g6", age |-> 0, headers |-> <<FromHdr, Hdr("Message-ID", "<f>")>>,
     payload |-> SinglePart(Base64(T2Doc))] }

MsgIds == {m.id : m \in Catalogue}
MsgOf(id) == CHOOSE m \in Catalogue : m.id = id
Arrival(id) == BaseTime - MsgOf(id).age

\* -------------------------------------------------------------- the sheet
\* A row is its ten cells, columns A..J; column J (10) is the identifier column.
HeaderRow ==
  << <<"N", "a", "m", "e">>, <<"P", "h", "o", "n", "e">>, <<"E", "m", "a", "i", "l">>,
     <<"P", "r", "o", "d">>, <<0, 0, 0, 0>>, "Lead Status", "Welcome Sent",
     "Contacted Sent", "Order Confirmed Sent", IdHeaderLabel >>

\* a lead persisted before the exploration starts, with identifier cell id
OldRow(id) ==
  << <<"O", "l", "d">>, <<"'", "1", "1">>, NA, NA, toLocaleString(BaseTime - 200),
     "Contacted", "Yes", "Yes", "", id >>

\* stores the exploration starts from; none repeats a value in column J
InitialSheets ==
  { <<>>,
    <<HeaderRow, OldRow("<a>"), OldRow(""), OldRow("g3")>> }

\* response.data.values of a read of the range J:J: one array per row, empty for
\* an empty cell
ColumnJ(sh) == [i \in 1..Len(sh) |-> IF sh[i][10] = "" THEN <<>> ELSE <<sh[i][10]>>]

\* Array.prototype.flat
RECURSIVE Flat(_)
Flat(vals) == IF vals = <<>> THEN <<>> ELSE Head(vals) \o Flat(Tail(vals))

\* src/index.js getExistingMessageIds: `ok` is whether the read of J:J succeeds
getExistingMessageIds(sh, ok) ==
  IF ok
  THEN LET flat == Flat(ColumnJ(sh))
       IN {flat[i] : i \in {j \in 1..Len(flat) : flat[j] # "" /\ flat[j] # IdHeaderLabel}}
  ELSE {}

\* ------------------------------------------------------------- the mailbox
\* the bound of an `after:YYYY/MM/DD` term as a day number; -1 when the text is
\* no date
AfterDay(bound) ==
  IF Len(bound) = 10 /\ \A i \in {1, 2, 3, 4, 6, 7, 9, 10} : IsDigit(bound[i])
  THEN DaysFromCivil(StrToNum(SubSeq(bound, 1, 4)), StrToNum(SubSeq(bound, 6, 7)),
                     StrToNum(SubSeq(bound, 9, 10)))
  ELSE -1

\* the ids of `ids`, newest message first
RECURSIVE NewestFirst(_)
NewestFirst(ids) ==
  IF ids = {} THEN <<>>
  ELSE LET n == CHOOSE a \in ids : \A b \in ids : MsgOf(a).age <= MsgOf(b).age
       IN <<[id |-> n]>> \o NewestFirst(ids \ {n})

\* what the mail service may answer to the query `... after:bound` on mailbox box:
\* the messages that arrived on or after that day; a bound that is no date is
\* either ignored or matches nothing
ListResults(box, bound) ==
  IF AfterDay(bound) >= 0
  THEN {NewestFirst(ids) :
          ids \in {{id \in box : LocalDay(Arrival(id)) >= day} : day \in {AfterDay(bound)}}}
  ELSE {NewestFirst(box), <<>>}

\* ------------------------------------------------------------------ state
VARIABLES
  clock,          \* Date.now(), hours
  ticks,          \* clock advances so far
  checkpointFile, \* contents of last_run.txt
  sheet,          \* rows of the spreadsheet
  mailbox,        \* ids of the messages in the mailbox
  unread,         \* ids of the messages labelled UNREAD
  pc,             \* position of the process in checkAndFetchLeads
  run,            \* runs started so far
  lastRunTime,    \* the query lower bound of this run
  existingIds,    \* the identifiers loaded at the start of this run
  messages,       \* listRes.data.messages
  idx,            \* position of the loop in messages
  leadDetails,    \* the row being persisted
  exitStatus,     \* process exit status, -1 while running
  calls,          \* the calls this run has made, in order, with their outcome
  ckptAtStart,    \* checkpointFile when this run started
  runStart,       \* clock when this run started
  failures,       \* calls that have failed so far
  sheetAtStart,   \* sheet when this run started
  unreadAtStart,  \* unread when this run started
  runEnd,         \* clock when this run ended
  outcomes,       \* how the earlier runs ended
  fn,             \* the function applied on its own, "" in the pipeline
  argHtml,        \* its argument when it takes a document
  argStr,         \* its argument when it takes a string
  retFields,      \* what parseIndiaMartLead returned
  retStr,         \* what the string function returned
  applied         \* whether the function has returned

\* the state of the pipeline
pipeline ==
  << clock, ticks, checkpointFile, sheet, mailbox, unread, pc, run, lastRunTime,
     existingIds, messages, idx, leadDetails, exitStatus, calls, ckptAtStart,
     runStart, failures, outcomes, sheetAtStart, unreadAtStart, runEnd >>

\* the state of a function applied on its own
bench == << fn, argHtml, argStr, retFields, retStr, applied >>

vars == << pipeline, bench >>

\* what is recorded when a run starts, and how the earlier runs ended
runHist == << ckptAtStart, runStart, outcomes, sheetAtStart, unreadAtStart >>

\* saveCurrentRunTime writing the time the run started at instead of the time of
\* the call
saveCurrentRunTime_RunStart(file, ok, now) ==
  IF ok THEN toISOString(runStart) ELSE file

\* src/index.js saveCurrentRunTime: the file after the call; `ok` is whether
\* writeFileSync succeeds
saveCurrentRunTime(file, ok, now) == IF ok THEN toISOString(now) ELSE file

Call(op, id, ok) == [op |-> op, id |-> id, ok |-> ok]

\* the mailboxes the exploration starts from: messages that arrived before BaseTime
Mailboxes ==
  {b \in SUBSET {id \in MsgIds : MsgOf(id).age > 0} : Cardinality(b) <= MaxMsgs}

\* no function is applied on its own
NoBench ==
  /\ fn = ""
  /\ argHtml = BlankDoc
  /\ argStr = <<>>
  /\ retFields = <<>>
  /\ retStr = <<>>
  /\ applied = FALSE

\* the pipeline has not been started
Unstarted ==
  /\ pc = "Idle"
  /\ run = 0
  /\ lastRunTime = <<>>
  /\ existingIds = {}
  /\ messages = <<>>
  /\ idx = 0
  /\ leadDetails = <<>>
  /\ exitStatus = -1
  /\ calls = <<>>
  /\ failures = 0
  /\ outcomes = <<>>

Init ==
  /\ NoBench
  /\ clock = BaseTime
  /\ ticks = 0
  /\ checkpointFile \in {NoFile, toISOString(BaseTime - 10), GarbageText}
  /\ sheet \in InitialSheets
  /\ mailbox \in Mailboxes
  /\ unread = mailbox
  /\ pc = "Idle"
  /\ run = 0
  /\ lastRunTime = <<>>
  /\ existingIds = {}
  /\ messages = <<>>
  /\ idx = 0
  /\ leadDetails = <<>>
  /\ exitStatus = -1
  /\ calls = <<>>
  /\ ckptAtStart = checkpointFile
  /\ runStart = clock
  /\ failures = 0
  /\ sheetAtStart = sheet
  /\ unreadAtStart = unread
  /\ runEnd = clock
  /\ outcomes = <<>>

\* Time passes.  The clock is read when a run starts (Date.now() in
\* getLastRunTime), when a row is built and when the checkpoint is written, so
\* it is enough to let it advance between runs and while the list call is
\* outstanding.
Tick ==
  /\ ticks < MaxTicks
  /\ pc \in {"Idle", "Done", "Abort", "List"}
  /\ ticks' = ticks + 1
  /\ clock' = clock + TickHours
  /\ UNCHANGED << checkpointFile, sheet, mailbox, unread, pc, run, lastRunTime,
                  existingIds, messages, idx, leadDetails, exitStatus, calls,
                  runHist, bench, failures, runEnd >>

\* a catch block that also records the run time, as a `finally` would
Fail_SavesCheckpoint(op, id) ==
  /\ failures < MaxFailures
  /\ runEnd' = clock
  /\ failures' = failures + 1
  /\ pc' = "Abort"
  /\ exitStatus' = 1
  /\ calls' = Append(calls, Call(op, id, FALSE))
  /\ checkpointFile' = toISOString(clock)
  /\ UNCHANGED << clock, ticks, sheet, mailbox, unread, run,
                  lastRunTime, existingIds, messages, idx, leadDetails,
                  runHist, bench >>

\* the catch block of checkAndFetchLeads: the call `op` failed
Fail(op, id) ==
  /\ failures < MaxFailures
  /\ runEnd' = clock
  /\ failures' = failures + 1
  /\ pc' = "Abort"
  /\ exitStatus' = 1
  /\ calls' = Append(calls, Call(op, id, FALSE))
  /\ UNCHANGED << clock, ticks, checkpointFile, sheet, mailbox, unread, run,
                  lastRunTime, existingIds, messages, idx, leadDetails,
                  runHist, bench >>

\* saveCurrentRunTime without its try/catch: a failed write of the checkpoint
\* reaches the catch block of checkAndFetchLeads
Finish_WriteFailureAborts(log) ==
  \E wOk \in BOOLEAN :
    /\ (~wOk => failures < MaxFailures)
    /\ failures' = failures + (IF wOk THEN 0 ELSE 1)
    /\ checkpointFile' = saveCurrentRunTime(checkpointFile, wOk, clock)
    /\ calls' = Append(log, Call("writeCheckpoint", "", wOk))
    /\ pc' = IF wOk THEN "Done" ELSE "Abort"
    /\ exitStatus' = IF wOk THEN 0 ELSE 1
    /\ runEnd' = clock

\* saveCurrentRunTime() and the return that follows it: the run is over
Finish(log) ==
  \E wOk \in BOOLEAN :
    /\ (~wOk => failures < MaxFailures)
    /\ failures' = failures + (IF wOk THEN 0 ELSE 1)
    /\ checkpointFile' = saveCurrentRunTime(checkpointFile, wOk, clock)
    /\ calls' = Append(log, Call("writeCheckpoint", "", wOk))
    /\ pc' = "Done"
    /\ exitStatus' = 0
    /\ runEnd' = clock

\* the loop with saveCurrentRunTime() inside its body: the run time is saved
\* after every message
NextCandidate_SavesInLoop(log) ==
  IF idx < Len(messages)
  THEN /\ idx' = idx + 1
       /\ pc' = "Get"
       /\ calls' = Append(log, Call("writeCheckpoint", "", TRUE))
       /\ checkpointFile' = saveCurrentRunTime(checkpointFile, TRUE, clock)
       /\ UNCHANGED << exitStatus, failures, runEnd >>
  ELSE /\ Finish(log)
       /\ UNCHANGED idx

\* `continue`, or the end of the loop body: the next message, or the end of the loop
NextCandidate(log) ==
  IF idx < Len(messages)
  THEN /\ idx' = idx + 1
       /\ pc' = "Get"
       /\ calls' = log
       /\ UNCHANGED << checkpointFile, exitStatus, failures, runEnd >>
  ELSE /\ Finish(log)
       /\ UNCHANGED idx

\* the process is started: getLastRunTime()
StartRun ==
  /\ pc \in {"Idle", "Done", "Abort"}
  /\ run < MaxRuns
  /\ \E readOk \in BOOLEAN :
       /\ (checkpointFile.kind = "absent" => readOk)
       /\ (~readOk => failures < MaxFailures)
       /\ failures' = failures + (IF readOk THEN 0 ELSE 1)
       /\ lastRunTime' = getLastRunTime(checkpointFile, readOk, clock)
       /\ calls' = IF checkpointFile.kind = "absent" THEN <<>>
                   ELSE <<Call("readCheckpoint", "", readOk)>>
  /\ run' = run + 1
  /\ pc' = "Authorize"
  /\ exitStatus' = -1
  /\ existingIds' = {}
  /\ messages' = <<>>
  /\ idx' = 0
  /\ leadDetails' = <<>>
  /\ ckptAtStart' = checkpointFile
  /\ runStart' = clock
  /\ sheetAtStart' = sheet
  /\ unreadAtStart' = unread
  /\ UNCHANGED runEnd
  /\ outcomes' = IF pc = "Idle" THEN outcomes ELSE Append(outcomes, pc)
  /\ UNCHANGED << clock, ticks, checkpointFile, sheet, mailbox, unread, bench >>

\* await authorize()
Authorize ==
  /\ pc = "Authorize"
  /\ \/ /\ pc' = "ReadIds"
        /\ calls' = Append(calls, Call("authorize", "", TRUE))
        /\ UNCHANGED << clock, ticks, checkpointFile, sheet, mailbox, unread, run,
                        lastRunTime, existingIds, messages, idx, leadDetails,
                        exitStatus, runHist, bench, failures, runEnd >>
     \/ Fail("authorize", "")

\* await getExistingMessageIds(...)
ReadIds ==
  /\ pc = "ReadIds"
  /\ \E ok \in BOOLEAN :
       /\ (~ok => failures < MaxFailures)
       /\ failures' = failures + (IF ok THEN 0 ELSE 1)
       /\ existingIds' = getExistingMessageIds(sheet, ok)
       /\ calls' = Append(calls, Call("readColumn", "", ok))
  /\ pc' = "List"
  /\ UNCHANGED << clock, ticks, checkpointFile, sheet, mailbox, unread, run,
                  lastRunTime, messages, idx, leadDetails, exitStatus,
                  runHist, bench, runEnd >>

\* await gmail.users.messages.list(...) and the zero-results return
List ==
  /\ pc = "List"
  /\ \/ \E res \in ListResults(mailbox, lastRunTime) :
          /\ messages' = res
          /\ IF res = <<>>
             THEN /\ Finish(Append(calls, Call("list", "", TRUE)))
                  /\ UNCHANGED idx
             ELSE /\ idx' = 1
                  /\ pc' = "Get"
                  /\ calls' = Append(calls, Call("list", "", TRUE))
                  /\ UNCHANGED << checkpointFile, exitStatus, failures, runEnd >>
          /\ UNCHANGED << clock, ticks, sheet, mailbox, unread, run, lastRunTime,
                          existingIds, leadDetails, runHist, bench >>
     \/ Fail("list", "")

\* the value of the first header named message-id (any case); "" stands for null
MessageIdHeader(headers) ==
  LET hits == {i \in 1..Len(headers) : toLowerCase(headers[i].name) = "message-id"}
  IN IF hits = {} THEN ""
     ELSE headers[CHOOSE i \in hits : \A j \in hits : i <= j].value

\* the duplicate check: `uniqueMessageId && existingIds.has(uniqueMessageId)`
IsDuplicate(uniqueMessageId, seen) == uniqueMessageId # "" /\ uniqueMessageId \in seen

\* `uniqueMessageId || msgId`: the value written to column J
UniqueIdFor(uniqueMessageId, msgId) ==
  IF uniqueMessageId # "" THEN uniqueMessageId ELSE msgId

\* the row built from the parsed fields by the six push calls
BuildRow(fields, now, uniqueMessageId, msgId) ==
  fields \o << toLocaleString(now), "New", "Yes", "", "",
               UniqueIdFor(uniqueMessageId, msgId) >>

\* the id taken from the head of the list instead of from the loop variable
CurMsgId_First == messages[1].id

\* `const msgId = message.id` for the message the loop is at
CurMsgId == messages[idx].id

\* a loop body whose parser throws when the document is of no known template:
\* the exception reaches the catch block of checkAndFetchLeads
Get_ThrowsOnMiss ==
  /\ pc = "Get"
  /\ \/ LET emailData == MsgOf(CurMsgId)
            uniqueMessageId == MessageIdHeader(emailData.headers)
            emailHtmlBody == getEmailBody(emailData)
            log == Append(calls, Call("get", CurMsgId, TRUE))
        IN /\ IF IsDuplicate(uniqueMessageId, existingIds)
              THEN NextCandidate(log) /\ UNCHANGED leadDetails
              ELSE IF emailHtmlBody.chars = 0
              THEN NextCandidate(log) /\ UNCHANGED leadDetails
              ELSE IF Trim(emailHtmlBody.t1product) = <<>>
                      /\ Trim(emailHtmlBody.t2product) = <<>>
              THEN /\ pc' = "Abort"
                   /\ exitStatus' = 1
                   /\ runEnd' = clock
                   /\ calls' = log
                   /\ UNCHANGED << idx, checkpointFile, failures, leadDetails >>
              ELSE /\ leadDetails' = BuildRow(parseIndiaMartLead(emailHtmlBody), clock,
                                              uniqueMessageId, CurMsgId)
                   /\ pc' = "Append"
                   /\ calls' = log
                   /\ UNCHANGED << idx, checkpointFile, exitStatus, failures, runEnd >>
           /\ UNCHANGED << clock, ticks, sheet, mailbox, unread, run, lastRunTime,
                           existingIds, messages, runHist, bench >>
     \/ Fail("get", CurMsgId)

\* a loop body without the `if (!emailHtmlBody) continue`: a message without an
\* HTML body is parsed and persisted like any other
Get_NoBodyCheck ==
  /\ pc = "Get"
  /\ \/ LET emailData == MsgOf(CurMsgId)
            uniqueMessageId == MessageIdHeader(emailData.headers)
            emailHtmlBody == getEmailBody(emailData)
            log == Append(calls, Call("get", CurMsgId, TRUE))
        IN /\ IF IsDuplicate(uniqueMessageId, existingIds)
              THEN NextCandidate(log) /\ UNCHANGED leadDetails
              ELSE /\ leadDetails' = BuildRow(parseIndiaMartLead(emailHtmlBody), clock,
                                              uniqueMessageId, CurMsgId)
                   /\ pc' = "Append"
                   /\ calls' = log
                   /\ UNCHANGED << idx, checkpointFile, exitStatus, failures, runEnd >>
           /\ UNCHANGED << clock, ticks, sheet, mailbox, unread, run, lastRunTime,
                           existingIds, messages, runHist, bench >>
     \/ Fail("get", CurMsgId)

\* await gmail.users.messages.get(...), then the duplicate check, getEmailBody
\* and parseIndiaMartLead, up to the next await
Get ==
  /\ pc = "Get"
  /\ \/ LET emailData == MsgOf(CurMsgId)
            uniqueMessageId == MessageIdHeader(emailData.headers)
            emailHtmlBody == getEmailBody(emailData)
            log == Append(calls, Call("get", CurMsgId, TRUE))
        IN /\ IF IsDuplicate(uniqueMessageId, existingIds)
              THEN NextCandidate(log) /\ UNCHANGED leadDetails
              ELSE IF emailHtmlBody.chars = 0
              THEN NextCandidate(log) /\ UNCHANGED leadDetails
              ELSE /\ leadDetails' = BuildRow(parseIndiaMartLead(emailHtmlBody), clock,
                                              uniqueMessageId, CurMsgId)
                   /\ pc' = "Append"
                   /\ calls' = log
                   /\ UNCHANGED << idx, checkpointFile, exitStatus, failures, runEnd >>
           /\ UNCHANGED << clock, ticks, sheet, mailbox, unread, run, lastRunTime,
                           existingIds, messages, runHist, bench >>
     \/ Fail("get", CurMsgId)

\* an append whose failure is caught and logged inside the loop: the loop goes
\* on to the mark-read
AppendRow_SwallowsFailure ==
  /\ pc = "Append"
  /\ \E ok \in BOOLEAN :
       /\ (~ok => failures < MaxFailures)
       /\ failures' = failures + (IF ok THEN 0 ELSE 1)
       /\ sheet' = IF ok THEN Append(sheet, leadDetails) ELSE sheet
       /\ calls' = Append(calls, Call("append", CurMsgId, ok))
  /\ pc' = "Modify"
  /\ UNCHANGED << clock, ticks, checkpointFile, mailbox, unread, run,
                  lastRunTime, existingIds, messages, idx, leadDetails,
                  exitStatus, runHist, bench, runEnd >>

\* an append that is tried again when it fails
AppendRow_Retries ==
  /\ pc = "Append"
  /\ \E ok \in BOOLEAN :
       /\ (~ok => failures < MaxFailures)
       /\ failures' = failures + (IF ok THEN 0 ELSE 1)
       /\ sheet' = IF ok THEN Append(sheet, leadDetails) ELSE sheet
       /\ calls' = Append(calls, Call("append", CurMsgId, ok))
       /\ pc' = IF ok THEN "Modify" ELSE "Append"
  /\ UNCHANGED << clock, ticks, checkpointFile, mailbox, unread, run,
                  lastRunTime, existingIds, messages, idx, leadDetails,
                  exitStatus, runHist, bench, runEnd >>

\* await sheets.spreadsheets.values.append(...)
AppendRow ==
  /\ pc = "Append"
  /\ \/ /\ sheet' = Append(sheet, leadDetails)
        /\ pc' = "Modify"
        /\ calls' = Append(calls, Call("append", CurMsgId, TRUE))
        /\ UNCHANGED << clock, ticks, checkpointFile, mailbox, unread, run,
                        lastRunTime, existingIds, messages, idx, leadDetails,
                        exitStatus, runHist, bench, failures, runEnd >>
     \/ Fail("append", CurMsgId)

\* a mark-read whose failure is logged and skipped: the loop goes on
MarkRead_SwallowsFailure ==
  /\ pc = "Modify"
  /\ \E ok \in BOOLEAN :
       /\ unread' = IF ok THEN unread \ {CurMsgId} ELSE unread
       /\ IF ok
          THEN NextCandidate(Append(calls, Call("markRead", CurMsgId, TRUE)))
          ELSE /\ failures < MaxFailures
               /\ idx < Len(messages)
               /\ idx' = idx + 1
               /\ pc' = "Get"
               /\ calls' = Append(calls, Call("markRead", CurMsgId, FALSE))
               /\ failures' = failures + 1
               /\ UNCHANGED << checkpointFile, exitStatus, runEnd >>
  /\ UNCHANGED << clock, ticks, sheet, mailbox, run, lastRunTime, existingIds,
                  messages, leadDetails, runHist, bench >>

\* await gmail.users.messages.modify(...): remove the UNREAD label
MarkRead ==
  /\ pc = "Modify"
  /\ \/ /\ unread' = unread \ {CurMsgId}
        /\ NextCandidate(Append(calls, Call("markRead", CurMsgId, TRUE)))
        /\ UNCHANGED << clock, ticks, sheet, mailbox, run, lastRunTime, existingIds,
                        messages, leadDetails, runHist, bench >>
     \/ Fail("markRead", CurMsgId)

Next ==
  \/ Tick
  \/ StartRun
  \/ Authorize
  \/ ReadIds
  \/ List
  \/ Get
  \/ AppendRow
  \/ MarkRead

Spec == Init /\ [][Next]_vars

\* Every awaited call returns or fails: a run that waits for a call takes its
\* next step.
\* a step of a run that has started: the call it awaits returns or fails
Await == Authorize \/ ReadIds \/ List \/ Get \/ AppendRow \/ MarkRead

\* the starts explored for the runs to their end: a first run (no checkpoint
\* file) over a store that already holds leads
FairInit ==
  /\ Init
  /\ checkpointFile = NoFile
  /\ sheet # <<>>

FairSpec == FairInit /\ [][Next]_vars /\ WF_vars(Await)

\* ------------------------------------------------ mail arriving during a run
\* a message matching the filter arrives: the mail service adds it, unread, at
\* the time the clock shows
Arrive ==
  /\ \E id \in MsgIds \ mailbox :
       /\ Arrival(id) = clock
       /\ mailbox' = mailbox \cup {id}
       /\ unread' = unread \cup {id}
  /\ UNCHANGED << clock, ticks, checkpointFile, sheet, pc, run, lastRunTime,
                  existingIds, messages, idx, leadDetails, exitStatus, calls,
                  runHist, bench, failures, runEnd >>

\* time passes while the get call of the loop is outstanding
Elapse ==
  /\ ticks < MaxTicks
  /\ pc = "Get"
  /\ ticks' = ticks + 1
  /\ clock' = clock + TickHours
  /\ UNCHANGED << checkpointFile, sheet, mailbox, unread, pc, run, lastRunTime,
                  existingIds, messages, idx, leadDetails, exitStatus, calls,
                  runHist, bench, failures, runEnd >>

\* the starts explored with arrivals: a first run (no checkpoint file) over an
\* empty store
WindowInit ==
  /\ Init
  /\ checkpointFile = NoFile
  /\ sheet = <<>>

WindowNext ==
  \/ Next
  \/ Arrive
  \/ Elapse

WindowSpec == WindowInit /\ [][WindowNext]_vars

\* ------------------------------------------- the functions on their own
\* parseIndiaMartLead, its phone formatting block and truncateString applied to
\* arguments drawn from the sets below.

\* longest phone text explored, in tokens
MaxTokens == 3
\* how far the lengths explored for truncateString go past MAX_CELL_CHARS
MaxOver == 2

\* the pieces phone texts are put together from
PhoneTokens == { <<"9">>, <<"-">>, <<"'">>, <<" ">>, VerifiedNote, NA }

RECURSIVE TokenStrings(_)
TokenStrings(n) ==
  IF n = 0 THEN {<<>>}
  ELSE LET shorter == TokenStrings(n - 1)
       IN shorter \cup {s \o t : s \in shorter, t \in PhoneTokens}

\* the texts `.text().trim()` can hand to the phone formatting block
PhoneTexts == {Trim(s) : s \in TokenStrings(MaxTokens)}

\* a text of n characters
Fill(n) == [i \in 1..n |-> IF i % 2 = 1 THEN "a" ELSE "b"]

LongTexts ==
  {Fill(n) : n \in 0..MaxOver \cup (MAX_CELL_CHARS - MaxOver)..(MAX_CELL_CHARS + MaxOver)}

\* addresses the marketplace itself sends from
GenericAddress == <<"b", "u", "y", "l", "e", "a", "d", "s", "@", "i", "n", "d", "i", "a", "m", "a", "r", "t", ".", "c", "o", "m">>
RelayAddress == <<"r", "1", "@", "r", "e", "p", "l", "y", ".", "i", "n", "d", "i", "a", "m", "a", "r", "t", ".", "c", "o", "m">>

NameTexts == { <<>>, <<" ">>, <<"R", "a", "v", "i", " ">> }
CallTexts == { <<>>, <<"-">>, <<"+", "9", "1", "-", "9", "8">> \o VerifiedNote }
MailTexts == { <<>>, <<"r", "@", "x">>, GenericAddress }
MailLists ==
  { <<>>, << <<>>, <<>> >>, << <<"a", "@", "y">>, <<" ", "b", "@", "y">> >>,
    << RelayAddress >>, << GenericAddress, RelayAddress >> }

\* the first of a list of texts, as `.first().text()` gives it
FirstOf(ss) == IF ss = <<>> THEN <<>> ELSE ss[1]

\* documents of the first template: a product heading and a contact block
T1Docs ==
  { [BlankDoc EXCEPT !.chars = 900, !.t1product = <<" ", "F", "i", "l", "m">>,
       !.t1name = n, !.t1phone = p, !.t1email = e, !.anyPhone = p, !.anyEmail = e]
      : n \in NameTexts, p \in CallTexts, e \in MailTexts }

\* documents of the second template: an "I need" paragraph and labelled spans
T2Docs ==
  { [BlankDoc EXCEPT !.chars = 700, !.t2product = <<"F", "o", "i", "l">>,
       !.t2name = n, !.t2phone = p, !.t2emails = es, !.anyPhone = p,
       !.anyEmail = FirstOf(es)]
      : n \in NameTexts, p \in CallTexts, es \in MailLists }

\* documents of neither template
UnknownDocs ==
  { [BlankDoc EXCEPT !.chars = 300, !.t1name = n, !.anyPhone = p, !.anyEmail = e]
      : n \in NameTexts, p \in CallTexts, e \in MailTexts }

Docs == T1Docs \cup T2Docs \cup UnknownDocs

ExtractInit ==
  /\ Unstarted
  /\ clock = BaseTime
  /\ ticks = 0
  /\ checkpointFile = NoFile
  /\ sheet = <<>>
  /\ mailbox = {}
  /\ unread = {}
  /\ ckptAtStart = NoFile
  /\ runStart = BaseTime
  /\ sheetAtStart = <<>>
  /\ unreadAtStart = {}
  /\ runEnd = BaseTime
  /\ retFields = <<>>
  /\ retStr = <<>>
  /\ applied = FALSE
  /\ \/ fn = "parseIndiaMartLead" /\ argHtml \in Docs /\ argStr = <<>>
     \/ fn = "PhoneFormat" /\ argHtml = BlankDoc /\ argStr \in PhoneTexts
     \/ fn = "truncateString" /\ argHtml = BlankDoc /\ argStr \in LongTexts

\* parseIndiaMartLead(body)
Extract ==
  /\ fn = "parseIndiaMartLead"
  /\ ~applied
  /\ retFields' = parseIndiaMartLead(argHtml)
  /\ applied' = TRUE
  /\ UNCHANGED << fn, argHtml, argStr, retStr, pipeline >>

\* the phone formatting block of parseIndiaMartLead
FormatPhone ==
  /\ fn = "PhoneFormat"
  /\ ~applied
  /\ retStr' = PhoneFormat(argStr)
  /\ applied' = TRUE
  /\ UNCHANGED << fn, argHtml, argStr, retFields, pipeline >>

\* truncateString(str)
Truncate ==
  /\ fn = "truncateString"
  /\ ~applied
  /\ retStr' = truncateString(argStr)
  /\ applied' = TRUE
  /\ UNCHANGED << fn, argHtml, argStr, retFields, pipeline >>

ExtractNext ==
  \/ Extract
  \/ FormatPhone
  \/ Truncate

ExtractSpec == ExtractInit /\ [][ExtractNext]_vars

\* ============================================================ properties
\* the identifier written to column J for message id
UidOf(id) == UniqueIdFor(MessageIdHeader(MsgOf(id).headers), id)
\* the rows whose identifier cell is uid
RowsWith(uid) == {i \in 1..Len(sheet) : sheet[i][10] = uid}
\* the positions in the call log of the calls `op` for message id
CallsOf(op, id) == {i \in 1..Len(calls) : calls[i].op = op /\ calls[i].id = id}
\* the rows this run has appended
RowsOfRun == (Len(sheetAtStart) + 1)..Len(sheet)
\* the messages this run has fetched
Fetched == {calls[i].id : i \in {j \in 1..Len(calls) : calls[j].op = "get" /\ calls[j].ok}}

\* C1: after two completed runs over the same mailbox, the store holds at most
\* one row carrying the unique identifier of any message of the mailbox
\* (stated for the runs in which no call fails).
C1_TwoRunsNoDuplicateRow ==
  (run = 2 /\ pc = "Done" /\ outcomes = <<"Done">> /\ failures = 0)
    => \A id \in mailbox : Cardinality(RowsWith(UidOf(id))) <= 1

\* C2: a row is never appended for a candidate whose identifier (the Message-ID
\* header value, else the transport id) is in the set loaded at the start of the
\* run (stated for the runs in which no call fails).
C2_SeenIdentifierRejected ==
  failures = 0 => \A i \in RowsOfRun : sheet[i][10] \notin existingIds

\* C3: no two rows of the store carry the same unique identifier (stated for
\* the runs in which no call fails).
C3_NoRepeatedIdentifier ==
  failures = 0 =>
    \A i, j \in 1..Len(sheet) :
      (i # j /\ sheet[i][10] # "") => sheet[i][10] # sheet[j][10]

\* C4: a candidate whose name and phone are both "N/A" is never persisted, and
\* is marked read (stated for the runs in which no call fails).
C4_JunkNeverPersisted ==
  failures = 0 =>
  /\ \A i \in 1..Len(sheet) : ~(sheet[i][1] = NA /\ sheet[i][2] = NA)
  /\ pc = "Done" =>
       \A id \in Fetched :
         LET f == parseIndiaMartLead(getEmailBody(MsgOf(id)))
         IN (getEmailBody(MsgOf(id)).chars > 0 /\ f[1] = NA /\ f[2] = NA
             /\ UidOf(id) \notin existingIds) => id \notin unread

\* C5: a candidate whose identifier is in the loaded set is marked read, no row
\* is appended for it, and the run goes on with the next candidate (stated for
\* the runs in which no call fails).
C5_DuplicateMarkedReadNotAppended ==
  (pc = "Done" /\ failures = 0) =>
    \A id \in Fetched :
      UidOf(id) \in existingIds
        => /\ id \notin unread
           /\ CallsOf("append", id) = {}
           /\ \A i \in RowsOfRun : sheet[i][10] # UidOf(id)

\* the instant an ISO timestamp denotes, found by search over the days explored
DayWindow == (BaseTime \div 24 - 3)..(BaseTime \div 24 + 2 + (MaxTicks * TickHours) \div 24)
InstantOfIso(text) ==
  24 * (CHOOSE D \in DayWindow : CivilFromDays(D) = <<text.y, text.m, text.d>>) + text.h

LastCall == calls[Len(calls)]
ReadFailed == calls # <<>> /\ calls[1] = Call("readCheckpoint", "", FALSE)
ReadOk == calls # <<>> /\ calls[1] = Call("readCheckpoint", "", TRUE)

\* C6 as stated: every run that ends without an unrecovered error ends with the
\* checkpoint set to the time at the end of that run (stated for the runs in which
\* at most one call has failed).
C6_DoneSetsCheckpoint ==
  (pc = "Done" /\ failures <= 1) => ParseDate(checkpointFile) = ValidDate(runEnd)

\* C6 as amended: a run that ends without an unrecovered error ends with an attempt
\* to write the checkpoint; if the write succeeds the checkpoint is the time at
\* the end of the run, if it fails the checkpoint keeps the value it had when the
\* run started. This covers the zero-results and the all-skipped runs.
C6_DoneSetsCheckpointIfWritten ==
  pc = "Done" =>
    /\ LastCall.op = "writeCheckpoint"
    /\ IF LastCall.ok
       THEN ParseDate(checkpointFile) = ValidDate(runEnd)
       ELSE checkpointFile = ckptAtStart

\* an all-skipped run that took time and whose checkpoint write succeeded
C6_Witness ==
  /\ pc = "Done"
  /\ LastCall.ok
  /\ messages # <<>>
  /\ RowsOfRun = {}
  /\ runEnd > runStart

\* C7: when a run aborts, the checkpoint is the one the run started with, the
\* exit status is non-zero, nothing is appended or marked read after the failing
\* call, and the next run starts from that same checkpoint.
C7_AbortKeepsCheckpoint ==
  [][ /\ (pc # "Abort" /\ pc' = "Abort")
          => /\ checkpointFile' = ckptAtStart'
             /\ exitStatus' = 1
             /\ ~calls'[Len(calls')].ok
             /\ sheet' = sheet
             /\ unread' = unread
      /\ pc = "Abort"
          => /\ sheet' = sheet
             /\ unread' = unread
             /\ checkpointFile' = checkpointFile
             /\ calls' = calls \/ pc' = "Authorize"
             /\ pc' \in {"Abort", "Authorize"}
             /\ pc' = "Authorize"
                  => /\ ckptAtStart' = ckptAtStart
                     /\ (ckptAtStart.kind = "iso" /\ calls'[1].ok)
                          => AfterDay(lastRunTime') = LocalDay(InstantOfIso(ckptAtStart))
    ]_vars

\* a run aborted by a failed mark-read with a candidate still unprocessed
C7_Witness ==
  /\ pc = "Abort"
  /\ LastCall.op = "markRead"
  /\ idx < Len(messages)
  /\ RowsOfRun # {}
  /\ ckptAtStart.kind = "iso"

TransportOps == {"list", "get", "markRead", "append"}

\* no call is made twice for the same message within a run
NeverRetried ==
  \A i, j \in 1..Len(calls) :
    (i # j /\ calls[i].op = calls[j].op) => calls[i].id # calls[j].id

\* the call at position i of the log failed and aborted the run
AbortedAt(i) ==
  /\ pc = "Abort"
  /\ i = Len(calls)
  /\ checkpointFile = ckptAtStart
  /\ exitStatus = 1

C9_LowerBoundDate ==
  pc # "Idle" =>
    /\ ckptAtStart.kind = "absent" => AfterDay(lastRunTime) = LocalDay(runStart - 48)
    /\ (ckptAtStart.kind = "iso" /\ ReadOk)
         => AfterDay(lastRunTime) = LocalDay(InstantOfIso(ckptAtStart))

\* a run that read a checkpoint whose UTC date is not its local date
C9_Witness ==
  /\ pc = "List"
  /\ ckptAtStart.kind = "iso"
  /\ ReadOk
  /\ CivilFromDays(AfterDay(lastRunTime))[3] # ckptAtStart.d

\* C10: a failed read of the checkpoint does not abort the run: the lower bound is
\* the date 48 hours before the start of the run, and the run goes on.
C10_ReadFailureFallsBack ==
  (pc # "Idle" /\ ReadFailed) =>
    /\ AfterDay(lastRunTime) = LocalDay(runStart - 48)
    /\ Len(calls) = 1 => (pc = "Authorize" /\ exitStatus = -1)
    /\ pc = "Abort" => (Len(calls) > 1 /\ LastCall.op # "readCheckpoint")

\* a run that listed candidates after its read of the checkpoint failed
C10_Witness ==
  /\ ReadFailed
  /\ pc = "Get"
  /\ ckptAtStart.kind = "iso"
  /\ messages # <<>>

\* ------------------------------------------------ the functions on their own
\* a text of white space only
Blank(s) == \A i \in 1..Len(s) : s[i] = " "

\* the template parseIndiaMartLead takes a document for: 1, 2, or 0 for neither
TemplateOf(d) ==
  IF ~Blank(d.t1product) THEN 1 ELSE IF ~Blank(d.t2product) THEN 2 ELSE 0

\* the texts found by the selectors applied for field k (1 name, 2 phone, 3 email,
\* 4 product) of a document of that template
Found(d, k) ==
  CASE TemplateOf(d) = 1 ->
         {(<<d.t1name, d.t1phone, d.t1email, d.t1product>>)[k]}
    [] TemplateOf(d) = 2 ->
         IF k = 3 THEN {d.t2emails[i] : i \in 1..Len(d.t2emails)}
         ELSE {(<<d.t2name, d.t2phone, <<>>, d.t2product>>)[k]}
    [] OTHER ->
         IF k = 2 THEN {d.anyPhone} ELSE IF k = 3 THEN {d.anyEmail} ELSE {}

Parsed == fn = "parseIndiaMartLead" /\ applied

\* C11: each of the four fields parseIndiaMartLead returns is a non-empty text,
\* and it is "N/A" only when every selector applied for that field found nothing
\* but white space.
C11_FieldsNeverEmpty ==
  Parsed =>
    \A k \in 1..4 :
      /\ retFields[k] # <<>>
      /\ retFields[k] = NA => \A t \in Found(argHtml, k) : Blank(t)

\* a template-1 document whose name is white space and whose phone is present
C11_Witness ==
  /\ Parsed
  /\ TemplateOf(argHtml) = 1
  /\ argHtml.t1name = <<" ">>
  /\ retFields[1] = NA
  /\ retFields[2] \notin {NA, <<>>}

\* C12: formatting an already formatted phone text returns that same text.
C12_PhoneFormatIdempotent ==
  (fn = "PhoneFormat" /\ applied) => PhoneFormat(retStr) = retStr

\* C13: the text truncateString returns is at most MAX_CELL_CHARS plus the length
\* of the marker long; it is the argument when that is at most MAX_CELL_CHARS long,
\* and otherwise the first MAX_CELL_CHARS characters of it followed by the marker.
C13_TruncationLaw ==
  (fn = "truncateString" /\ applied) =>
    /\ Len(retStr) <= MAX_CELL_CHARS + Len(TruncMarker)
    /\ Len(argStr) <= MAX_CELL_CHARS => retStr = argStr
    /\ Len(argStr) > MAX_CELL_CHARS =>
         /\ Len(retStr) = MAX_CELL_CHARS + Len(TruncMarker)
         /\ \A i \in 1..MAX_CELL_CHARS : retStr[i] = argStr[i]
         /\ \A j \in 1..Len(TruncMarker) : retStr[MAX_CELL_CHARS + j] = TruncMarker[j]

\* a text one character over the budget has been cut
C13_Witness ==
  /\ fn = "truncateString"
  /\ applied
  /\ Len(argStr) = MAX_CELL_CHARS + 1
  /\ retStr # argStr

\* ------------------------------------------------------------ the pipeline
\* the display name of the reply-to header, <<>> when there is none
ReplyToName(headers) ==
  LET hits == {i \in 1..Len(headers) : toLowerCase(headers[i].name) = "reply-to"}
  IN IF hits = {} THEN <<>>
     ELSE LET v == headers[CHOOSE i \in hits : \A j \in hits : i <= j].value
              lt == IndexOf(v, <<"<">>)
          IN IF lt = 0 THEN <<>> ELSE Trim(SubSeq(v, 1, lt - 1))

\* C14: the row persisted for a message whose HTML matches no template and whose
\* reply-to header has the form Display Name <address> carries that display name
\* (stated for the runs in which no call fails).
C14_ReplyToNameUsed ==
  failures = 0 =>
    \A id \in Fetched :
      LET d == getEmailBody(MsgOf(id))
          n == ReplyToName(MsgOf(id).headers)
      IN (d.chars > 0 /\ TemplateOf(d) = 0 /\ n # <<>>)
           => \A i \in RowsOfRun : sheet[i][10] = UidOf(id) => sheet[i][1] = n

\* ------------------------------------------------ the functions on their own
\* the domain of the marketplace's own addresses
PlatformDomain == <<"i", "n", "d", "i", "a", "m", "a", "r", "t", ".", "c", "o", "m">>
OfPlatform(address) == IndexOf(address, PlatformDomain) > 0

\* C15: the email field parseIndiaMartLead returns holds no address of the
\* marketplace itself, and is "N/A" when every mail link found is such an address.
C15_PlatformAddressRejected ==
  Parsed =>
    /\ ~OfPlatform(retFields[3])
    /\ (Found(argHtml, 3) # {} /\ \A t \in Found(argHtml, 3) : OfPlatform(t))
         => retFields[3] = NA

\* ------------------------------------------------------------ the pipeline
IsOkAppend(c) == c.op = "append" /\ c.ok
\* the appends of this run that succeeded, in order
OkAppends == SelectSeq(calls, IsOkAppend)
\* the candidate is neither skipped as a duplicate nor for want of an HTML body
Admitted(id) ==
  /\ ~IsDuplicate(MessageIdHeader(MsgOf(id).headers), existingIds)
  /\ getEmailBody(MsgOf(id)).chars > 0

\* C16: a mark-read call is issued only right after the append of the same
\* message has succeeded; a message whose append failed is not marked read in that
\* run; the run appends exactly one row per successful append, at most one append
\* is made per message, and a finished run has made one for each admitted message.
C16_AppendBeforeMarkRead ==
  /\ \A i \in 1..Len(calls) :
       /\ calls[i].op = "markRead"
            => (i > 1 /\ calls[i - 1] = Call("append", calls[i].id, TRUE))
       /\ (calls[i].op = "append" /\ ~calls[i].ok)
            => /\ CallsOf("markRead", calls[i].id) = {}
               /\ calls[i].id \in unread <=> calls[i].id \in unreadAtStart
  /\ \A id \in MsgIds : Cardinality(CallsOf("append", id)) <= 1
  /\ Len(sheet) = Len(sheetAtStart) + Len(OkAppends)
  /\ \A k \in 1..Len(OkAppends) :
       sheet[Len(sheetAtStart) + k][10] = UidOf(OkAppends[k].id)
  /\ pc = "Done" =>
       \A id \in Fetched : Admitted(id) <=> Cardinality(CallsOf("append", id)) = 1

\* the append of the second candidate failed after the first was appended and
\* marked read
C16_Witness ==
  /\ pc = "Abort"
  /\ idx = 2
  /\ LastCall.op = "append"
  /\ CallsOf("markRead", messages[1].id) # {}
  /\ messages[2].id \in unread

IsCandidateCall(c) == c.op \in {"get", "append", "markRead"}
\* the calls this run has made for candidates, in order
CandidateCalls == SelectSeq(calls, IsCandidateCall)
\* the position of message id in the list
PosOf(id) == CHOOSE j \in 1..Len(messages) : messages[j].id = id
\* call d may be the call made right after call c: the next step for the same
\* candidate, or the get of the next candidate once the loop body has ended
FollowsInLoop(c, d) ==
  /\ c.ok
  /\ \/ c.op = "get" /\ d.op = "append" /\ d.id = c.id
     \/ c.op = "append" /\ d.op = "markRead" /\ d.id = c.id
     \/ /\ c.op \in {"get", "markRead"}
        /\ d.op = "get"
        /\ PosOf(d.id) = PosOf(c.id) + 1

\* C17: the calls of a run are made one after another, each after the one before
\* it has returned, candidate by candidate in list order: the first is the get of
\* the first candidate, no call is made for a candidate before the calls of the
\* one before it are over, and the call awaited is for the candidate the loop is at.
C17_OneCandidateAtATime ==
  /\ \A i \in 1..(Len(calls) - 1) : IsCandidateCall(calls[i]) => calls[i].ok
  /\ CandidateCalls # <<>> => CandidateCalls[1] = Call("get", messages[1].id, CandidateCalls[1].ok)
  /\ \A k \in 1..(Len(CandidateCalls) - 1) :
       FollowsInLoop(CandidateCalls[k], CandidateCalls[k + 1])
  /\ \A k \in 1..Len(CandidateCalls) :
       /\ \E j \in 1..Len(messages) : messages[j].id = CandidateCalls[k].id
       /\ PosOf(CandidateCalls[k].id) <= idx
  /\ pc \in {"Append", "Modify"} =>
       /\ CandidateCalls # <<>>
       /\ PosOf(CandidateCalls[Len(CandidateCalls)].id) = idx
  /\ pc = "Get" =>
       \A k \in 1..Len(CandidateCalls) : PosOf(CandidateCalls[k].id) < idx

\* a run that has appended and marked read two candidates, one after the other
C17_Witness ==
  /\ pc = "Done"
  /\ Len(messages) = 2
  /\ Len(OkAppends) = 2
  /\ Len(CandidateCalls) = 6

\* the positions in the call log of the calls `op`
CallsOfOp(op) == {i \in 1..Len(calls) : calls[i].op = op}

\* C18: a run reads the checkpoint once, before any other call (the file is read
\* when it exists; the lower bound of the run is what that read gave), and writes
\* it at most once, as its last call: after a list call that returned nothing, or
\* after the last listed candidate has been fetched.
C18_CheckpointReadWriteOnce ==
  pc # "Idle" =>
    /\ CallsOfOp("readCheckpoint") = IF ckptAtStart.kind = "absent" THEN {} ELSE {1}
    /\ lastRunTime = getLastRunTime(ckptAtStart, ~ReadFailed, runStart)
    /\ Cardinality(CallsOfOp("writeCheckpoint")) <= 1
    /\ \A i \in CallsOfOp("writeCheckpoint") :
         /\ i = Len(calls)
         /\ pc = "Done"
         /\ CallsOfOp("list") # {}
         /\ \/ messages = <<>>
            \/ /\ idx = Len(messages)
               /\ \A j \in 1..Len(messages) : CallsOf("get", messages[j].id) # {}
    /\ checkpointFile # ckptAtStart => CallsOfOp("writeCheckpoint") # {}

\* a run that read the checkpoint and wrote it after the second of two candidates
C18_Witness ==
  /\ pc = "Done"
  /\ ReadOk
  /\ LastCall = Call("writeCheckpoint", "", TRUE)
  /\ idx = 2
  /\ checkpointFile # ckptAtStart

\* C19: a field the parser cannot find is no error: once the get of an admitted
\* candidate has returned, the row is built with "N/A" in every field for which the
\* selectors found nothing, the next step is the append of that row, and the run
\* enters Abort only by a call that failed.
C19_ParseMissContinues ==
  [][ /\ (pc = "Get" /\ calls' = Append(calls, Call("get", CurMsgId, TRUE))
            /\ Admitted(CurMsgId))
          => /\ pc' = "Append"
             /\ exitStatus' = -1
             /\ \A k \in 1..4 :
                  (\A t \in Found(getEmailBody(MsgOf(CurMsgId)), k) : Blank(t))
                    => leadDetails'[k] = NA
      /\ (pc # "Abort" /\ pc' = "Abort")
          => /\ Len(calls') = Len(calls) + 1
             /\ ~calls'[Len(calls')].ok
    ]_vars

\* the row of a template-1 message without a contact block is about to be appended
C19_Witness ==
  /\ pc = "Append"
  /\ getEmailBody(MsgOf(CurMsgId)) = T1NoContactDoc
  /\ leadDetails[1] = NA
  /\ leadDetails[2] = NA
  /\ leadDetails[4] # NA

Running == {"Authorize", "ReadIds", "List", "Get", "Append", "Modify"}
Ended == {"Done", "Abort"}

\* the positions a run may be at right after being at position p
After(p) ==
  CASE p = "Authorize" -> {"ReadIds", "Abort"}
    [] p = "ReadIds" -> {"List"}
    [] p = "List" -> {"Get", "Done", "Abort"}
    [] p = "Get" -> {"Get", "Append", "Done", "Abort"}
    [] p = "Append" -> {"Modify", "Abort"}
    [] p = "Modify" -> {"Get", "Done", "Abort"}
    [] OTHER -> {"Authorize"}

\* C20: every run that has started reaches Done or Abort; until then it moves only
\* forward through the query window, the list, the steps of one candidate after
\* the other and the checkpoint, each listed candidate being fetched at most once.
C20_RunTerminates ==
  /\ (pc \in Running) ~> (pc \in Ended)
  /\ [][ /\ pc' # pc => pc' \in After(pc)
         /\ (pc \in Running /\ pc' \in Running) =>
              /\ calls' # calls \/ clock' # clock
              /\ idx' \in {idx, idx + 1}
              /\ idx' <= Len(messages')
              /\ (pc \in {"Get", "Modify"} /\ pc' = "Get") => idx' = idx + 1
              /\ (pc' = pc /\ pc # "Get") => calls' = calls
         /\ pc' = "Done" => calls'[Len(calls')].op = "writeCheckpoint"
      ]_vars
  /\ [](\A id \in MsgIds : Cardinality(CallsOf("get", id)) <= 1)

\* a run that went through two candidates has ended
C20_Witness ==
  /\ pc = "Done"
  /\ idx = 2
  /\ Cardinality(Fetched) = 2
  /\ run = 2

\* the get of the candidate the loop is at has returned in this step
GetReturned ==
  /\ pc = "Get"
  /\ Len(calls') > Len(calls)
  /\ calls'[Len(calls) + 1] = Call("get", CurMsgId, TRUE)
\* no HTML body can be obtained for message id
NoBody(id) == getEmailBody(MsgOf(id)).chars = 0

\* C21: a candidate for which no HTML body can be obtained is skipped: in the step
\* in which its get returns no row is appended and no message is marked read, the
\* run goes on to the get of the next candidate or, after the last one, ends in Done
\* with the checkpoint written (set to the time of the write when that succeeds);
\* and no append or mark-read call is ever made for it in that run.
C21_NoBodySkipped ==
  /\ [][ (GetReturned /\ NoBody(CurMsgId))
           => /\ sheet' = sheet
              /\ unread' = unread
              /\ IF idx < Len(messages)
                 THEN /\ pc' = "Get"
                      /\ idx' = idx + 1
                      /\ exitStatus' = -1
                      /\ checkpointFile' = checkpointFile
                 ELSE /\ pc' = "Done"
                      /\ exitStatus' = 0
                      /\ calls'[Len(calls')].op = "writeCheckpoint"
                      /\ calls'[Len(calls')].ok => checkpointFile' = toISOString(clock)
       ]_vars
  /\ [](\A id \in Fetched :
          NoBody(id) => /\ CallsOf("append", id) = {}
                        /\ CallsOf("markRead", id) = {}
                        /\ \A i \in RowsOfRun : sheet[i][10] # UidOf(id)
                        /\ id \in unread <=> id \in unreadAtStart)

\* a run that skipped a message without an HTML body, persisted the candidate after
\* it and wrote the checkpoint
C21_Witness ==
  /\ pc = "Done"
  /\ Len(messages) = 2
  /\ NoBody(messages[1].id)
  /\ messages[1].id \in unread
  /\ RowsOfRun # {}
  /\ LastCall = Call("writeCheckpoint", "", TRUE)
  /\ checkpointFile # ckptAtStart

\* the text is a calendar date written YYYY/MM/DD
WellFormedYMD(s) ==
  /\ Len(s) = 10
  /\ s[5] = "/"
  /\ s[8] = "/"
  /\ \A i \in {1, 2, 3, 4, 6, 7, 9, 10} : IsDigit(s[i])
  /\ LET y == StrToNum(SubSeq(s, 1, 4))
         m == StrToNum(SubSeq(s, 6, 7))
         d == StrToNum(SubSeq(s, 9, 10))
     IN CivilFromDays(DaysFromCivil(y, m, d)) = <<y, m, d>>

\* C22: whatever the checkpoint file holds when a run starts (nothing, an ISO
\* timestamp, or text that is no timestamp), the query lower bound of the run is a
\* calendar date written YYYY/MM/DD (stated for the runs in which no call fails).
C22_LowerBoundWellFormed ==
  (pc # "Idle" /\ failures = 0) => WellFormedYMD(lastRunTime)

\* the messages this run has marked read
MarkedRead ==
  {calls[i].id : i \in {j \in 1..Len(calls) : calls[j].op = "markRead" /\ calls[j].ok}}

\* C24: when the write of the checkpoint at the end of a run fails, the run has
\* ended in Done with exit status 0, the checkpoint file is the one the run started
\* with, and the rows appended and the messages marked read during the run are
\* kept: the sheet is the sheet at the start followed by one row per successful
\* append, and the unread messages are those at the start less the ones marked read.
C24_WriteFailureNotFatal ==
  (calls # <<>> /\ LastCall = Call("writeCheckpoint", "", FALSE)) =>
    /\ pc = "Done"
    /\ exitStatus = 0
    /\ checkpointFile = ckptAtStart
    /\ Len(sheet) = Len(sheetAtStart) + Len(OkAppends)
    /\ SubSeq(sheet, 1, Len(sheetAtStart)) = sheetAtStart
    /\ \A k \in 1..Len(OkAppends) :
         sheet[Len(sheetAtStart) + k][10] = UidOf(OkAppends[k].id)
    /\ unread = unreadAtStart \ MarkedRead

\* a run that persisted a lead and marked it read, and whose write of the
\* checkpoint failed while a checkpoint was stored
C24_Witness ==
  /\ pc = "Done"
  /\ LastCall = Call("writeCheckpoint", "", FALSE)
  /\ RowsOfRun # {}
  /\ MarkedRead # {}
  /\ unread # unreadAtStart
  /\ ckptAtStart.kind = "iso"

\* the messages of the list result of this run
Listed == {messages[j].id : j \in 1..Len(messages)}
\* the query lower bound the next run computes from the checkpoint file as it is
NextLowerBound == getLastRunTime(checkpointFile, TRUE, clock)

\* C23: when a run has ended in Done with its checkpoint written, every message
\* that arrived after the run issued its list call (it arrived no earlier than the
\* run started and is not in the list result) arrived on or after the day that is
\* the query lower bound of the next run (stated for the runs in which no call
\* fails and that started from a well-formed lower bound).
C23_NoMessageOutsideWindows ==
  (pc = "Done" /\ failures = 0 /\ WellFormedYMD(lastRunTime)
     /\ LastCall = Call("writeCheckpoint", "", TRUE)) =>
    \A id \in mailbox :
      (id \notin Listed /\ Arrival(id) >= runStart)
        => AfterDay(NextLowerBound) <= LocalDay(Arrival(id))
====
